---- MODULE Spec2Model ----
(***************************************************************************)
(* Model of the OCR pipeline's duplicate-safe sheet synchronisation        *)
(* (src/src/google_sheets_client.py) and of the field normaliser           *)
(* (src/src/azure_ocr_client.py).                                          *)
(*                                                                         *)
(* Text is modelled as a sequence of one-character strings, so that        *)
(* str.strip, str.lower and substring containment are computed the way     *)
(* Python computes them.  A letter with a diacritic is one character,      *)
(* written as the letter followed by a mark: "a'" is a-acute, "c^" is      *)
(* c-caron, and so on.                                                     *)
(***************************************************************************)
EXTENDS Integers, Sequences, FiniteSets, TLC

VARIABLES
    \* ---- durable state: file system and destination ----
    dir,                 \* json_dir: its entries [name, valid] in enumeration order;
                         \* valid = FALSE is a file that is unreadable or not JSON
    processed_files_db,  \* processed_files.txt: the sequence of its lines
    db_exists,           \* whether processed_files.txt exists
    duplicates_log,      \* duplicates_log.txt: the sequence of its blocks
    sheet,               \* the destination range starting at A1: a sequence of rows
    \* ---- state of the one GoogleSheetsClient process ----
    pc,                  \* "down" | "idle" | "scanned" | "built" | "written"
    service,             \* self.service is not None
    processed_files,     \* self.processed_files
    json_files,          \* upload_azure_json_data: json_files, in glob order
    new_files,           \* upload_azure_json_data: new_files
    duplicate_files,     \* upload_azure_json_data: duplicate_files
    rows,                \* upload_azure_json_data: rows
    reg_i,               \* position of the registration loop in new_files
    result,              \* value returned by the last sync run: "none" | TRUE | FALSE
    \* ---- history variables (observations only; no action reads them in a guard) ----
    starts,              \* number of process starts so far
    runs,                \* number of sync invocations so far
    ledger0,             \* self.processed_files when the current run began
    dir0,                \* json_dir when the current run began
    db0,                 \* processed_files.txt when the current run began
    db_start,            \* processed_files.txt when the current process started
    load_ok,             \* the current process read processed_files.txt to its end
    write_call,          \* the current run's destination call: "none" | "ok" | "failed"
    run_written,         \* files whose rows the current run's successful write carried
    append_failed,       \* files whose ledger append failed in the current run
    unpersisted,         \* files whose ledger append failed since the last process start
    pub_count,           \* per file: successful destination writes that carried its row
    proc_pub,            \* the same, counted since the last process start
    \* ---- a second GoogleSheetsClient process on the same files and destination ----
    pc2,                 \* "down" | "idle" | "scanned" | "built" | "written"
    processed_files2,    \* its self.processed_files
    json_files2,         \* its json_files
    new_files2,          \* its new_files
    duplicate_files2,    \* its duplicate_files
    rows2,               \* its rows
    reg_i2,              \* position of its registration loop
    result2,             \* value returned by its last sync run
    proc_pub2,           \* history: per file, its successful writes that carried the row
    \* ---- the field normaliser (AzureOCRClient.extract_key_fields) ----
    analysis_result,     \* the argument: a dict, its keys optional
    key_fields,          \* the dict returned
    npc,                 \* "off" | "input" | "done"
    \* ---- the result converter (AzureOCRClient._process_result) ----
    azure_result,        \* the argument: the service's AnalyzeResult
    processed_result,    \* the dict returned
    rpc,                 \* "off" | "input" | "returned" | "raised"
    \* ---- the matrix builder (upload_azure_json_data, lines 232-252) ----
    data_in,             \* json_data: the parsed artifacts, in order
    rows_out,            \* rows: the header and one row per artifact
    mpc,                 \* "off" | "input" | "done"
    \* ---- the batch analysis (AzureOCRClient.process_directory) ----
    todo,                \* what input_path.rglob('*') has still to yield
    output_files,        \* output_dir: artifact file name -> the dict dumped last
    moved_files,         \* data/processed: file name -> the path moved there last
    results,             \* the list returned
    dumped,              \* history: [path, output_file] of every json.dump
    input_files,         \* input_dir: the paths below it
    succeeded,           \* history: the paths whose analysis has succeeded
    again,               \* history: the paths submitted after such a success
    druns,               \* calls of process_directory so far
    listing,             \* history: what rglob yields in the current call
    dpc,                 \* "off" | "loop" | "returned"
    \* ---- the preprocessor (FilePreprocessor.process_file, compress_image) ----
    entry,               \* "off" | "process_file" | "compress_image": what was called
    quality,             \* the quality argument of the current compress_image frame
    attempts,            \* history: the quality of every img.save so far
    new_size,            \* the output file: "none" | "under" | "over" the threshold
    compress_ret,        \* what compress_image returned: "none" | "True" | "False"
    original,            \* the input file: "present" | "removed" | "moved"
    fpc                  \* "off" | "start" | "encode" | "compressed" | "done"

rvars == << azure_result, processed_result, rpc >>

\* the matrix builder of upload_azure_json_data, taken alone
mvars == << data_in, rows_out, mpc >>

\* process_directory, taken alone
dvars == << todo, output_files, moved_files, results, dumped, input_files,
             succeeded, again, druns, listing, dpc >>

\* the preprocessor, taken alone
cvars == << entry, quality, attempts, new_size, compress_ret, original, fpc >>

\* the variables of the functions modelled alone, which the sync process never touches
nvars == << analysis_result, key_fields, npc, rvars, mvars, dvars, cvars >>

\* the variables of the second process
vars2 == << pc2, processed_files2, json_files2, new_files2, duplicate_files2,
            rows2, reg_i2, result2, proc_pub2 >>

vars == << nvars, vars2, dir, processed_files_db, db_exists, duplicates_log, sheet,
           pc, service, processed_files, json_files, new_files, duplicate_files,
           rows, reg_i, result,
           starts, runs, ledger0, dir0, db0, db_start, load_ok, write_call, run_written,
           append_failed, unpersisted, pub_count, proc_pub >>

durable == << dir, processed_files_db, db_exists, duplicates_log, sheet >>
locals  == << json_files, new_files, duplicate_files, rows, reg_i >>

-----------------------------------------------------------------------------
(* Bounds of the model *)

MaxStarts == 2
MaxRuns == 2
MaxFields == 2
MaxScores == 2
MaxDocs == 2

-----------------------------------------------------------------------------
(* Text helpers *)

Range(s) == {s[i] : i \in DOMAIN s}

IsPrefix(s, t) == Len(s) <= Len(t) /\ SubSeq(t, 1, Len(s)) = s

Whitespace == {" ", "\t", "\n", "\r"}

\* str.strip(): leading and trailing whitespace removed
RECURSIVE LStrip(_)
LStrip(s) == IF s # <<>> /\ Head(s) \in Whitespace THEN LStrip(Tail(s)) ELSE s

RECURSIVE RStrip(_)
RStrip(s) ==
    IF s # <<>> /\ s[Len(s)] \in Whitespace THEN RStrip(SubSeq(s, 1, Len(s) - 1)) ELSE s

Strip(s) == RStrip(LStrip(s))

\* the sequence s without the elements that fail Keep, order kept
RECURSIVE Filter(_, _)
Filter(s, keep) ==
    IF s = <<>> THEN <<>>
    ELSE IF Head(s) \in keep THEN <<Head(s)>> \o Filter(Tail(s), keep)
    ELSE Filter(Tail(s), keep)

-----------------------------------------------------------------------------
(* Raw vendor labels *)

L_TypKotle      == <<"T","y","p"," ","k","o","t","l","e">>
L_VyrobniCislo  == <<"v","y'","r","o","b","n","i'"," ","c^","i'","s","l","o"," ","k","o","t","l","e">>
L_ProdejceKotle == <<"p","r","o","d","e","j","c","e"," ","k","o","t","l","e">>
L_AdresaProdejce == <<"a","d","r","e","s","a"," ","p","r","o","d","e","j","c","e">>
L_KupujiciJmeno == <<"k","u","p","u","j","i'","c","i'"," ","k","o","t","l","e"," ","j","m","e","n","o">>
L_AdresaZakaznika == <<"a","d","r","e","s","a"," ","z","a'","k","a","z","n","i'","k","a">>
L_DatumProvozu  == <<"d","a","t","u","m"," ","u","v","e","d","e","n","i'"," ","d","o"," ","p","r","o","v","o","z","u">>
L_CisloOpravneni == <<"c^","i'","s","l","o"," ","o","p","r","a'","v","n","e^","n","i'">>
L_Regulator     == <<"r","e","g","u","l","a'","t","o","r">>
L_AdresaDoplneniSheet == <<"a","d","r","e","s","a"," ","z","a","k","a","z","n","i","k","a"," ","d","o","p","l","n","e","n","i">>

\* the two labels extract_key_fields spells differently from the sheet header
L_KupujiciJmeno_Key == <<"k","u","p","u","j","i'","c","i'"," ","k","o","t","l","e"," ","j","m","e'","n","o">>
L_AdresaDoplneni_Key == <<"a","d","r","e","s","a"," ","z","a'","k","a","z","n","i'","k","a"," ","d","o","p","l","n","e","n","i">>
\* a label of another document type
L_TypVyrobku == <<"t","y","p"," ","v","y'","r","o","b","k","u">>

Col_NazevSouboru == <<"n","a","z","e","v","_","s","o","u","b","o","r","u">>

required_fields ==
    << L_TypKotle, L_VyrobniCislo, L_ProdejceKotle, L_AdresaProdejce, L_KupujiciJmeno,
       L_AdresaZakaznika, L_DatumProvozu, L_CisloOpravneni, L_Regulator,
       L_AdresaDoplneniSheet >>

-----------------------------------------------------------------------------
(* Artifact files *)

Suffix == <<"_","a","n","a","l","y","s","i","s",".","j","s","o","n">>

\* a file of json_dir that is no artifact: its name does not end in the suffix
StrayFile == <<"n","o","t","e","s",".","j","s","o","n">>

\* the artifact file names the model lets appear in json_dir
FileNames == { <<"a">> \o Suffix, <<"b">> \o Suffix, <<" ","a">> \o Suffix }

\* Path.glob("*_analysis.json"): the names that end with the suffix
MatchesGlob(name) ==
    /\ Len(name) >= Len(Suffix)
    /\ SubSeq(name, Len(name) - Len(Suffix) + 1, Len(name)) = Suffix

EntryNames(d) == {d[i].name : i \in DOMAIN d}

\* Variant: every entry of the directory is taken, whatever its name
Glob_All(d) == [i \in DOMAIN d |-> d[i].name]

\* list(json_dir.glob(...)): the matching names, in the directory's enumeration order
RECURSIVE Glob(_)
Glob(d) ==
    IF d = <<>> THEN <<>>
    ELSE IF MatchesGlob(Head(d).name) THEN <<Head(d).name>> \o Glob(Tail(d))
    ELSE Glob(Tail(d))

\* open + json.load succeed on the file of that name
Readable(d, name) == \E i \in DOMAIN d : d[i].name = name /\ d[i].valid

Stem(name) == SubSeq(name, 1, Len(name) - Len(Suffix))

\* json.load of a valid artifact: what process_directory dumped for the document
Artifact(name) ==
    [ source_file |-> Stem(name) \o <<".","p","d","f">>,
      extracted_fields |-> (L_TypKotle :> Stem(name)) ]

Get(d, k, default) == IF k \in DOMAIN d THEN d[k] ELSE default

EmptyText == <<>>

-----------------------------------------------------------------------------
(* The ingestion ledger: _load_processed_files and _add_to_processed *)

\* the set built by the read loop from the lines it has read
LoadProcessedFiles(lines) == {Strip(lines[i]) : i \in DOMAIN lines} \ {EmptyText}

\* Variant: a failed append takes the in-memory add back
AddToProcessed_Rollback(filename, persisted) ==
    IF filename \notin processed_files
    THEN /\ processed_files' =
                IF persisted THEN processed_files \cup {filename} ELSE processed_files
         /\ processed_files_db' =
                IF persisted THEN Append(processed_files_db, filename)
                ELSE processed_files_db
         /\ db_exists' = (db_exists \/ persisted)
    ELSE UNCHANGED << processed_files, processed_files_db, db_exists >>

\* Variant: the store is opened with mode 'w' instead of 'a'
AddToProcessed_Truncates(filename, persisted) ==
    IF filename \notin processed_files
    THEN /\ processed_files' = processed_files \cup {filename}
         /\ processed_files_db' =
                IF persisted THEN <<filename>> ELSE processed_files_db
         /\ db_exists' = (db_exists \/ persisted)
    ELSE UNCHANGED << processed_files, processed_files_db, db_exists >>

\* _add_to_processed(filename); persisted says whether the append reached the file
AddToProcessed(filename, persisted) ==
    IF filename \notin processed_files
    THEN /\ processed_files' = processed_files \cup {filename}
         /\ processed_files_db' =
                IF persisted THEN Append(processed_files_db, filename)
                ELSE processed_files_db
         /\ db_exists' = (db_exists \/ persisted)
    ELSE UNCHANGED << processed_files, processed_files_db, db_exists >>

-----------------------------------------------------------------------------
(* The sync orchestrator: upload_azure_json_data *)

\* Variant: the membership test is dropped
NewFiles_NoFilter(files, ledger) == files

NewFiles(files, ledger) == Filter(files, Range(files) \ ledger)

DuplicateFiles(files, ledger) == Filter(files, ledger)

\* Variant: the block carries the counts only
AuditBlock_CountsOnly(files, nf, df) == [total |-> Len(files), new |-> <<>>, duplicates |-> <<>>]

\* lines 192-209: the block of one run
AuditBlock(files, nf, df) == [total |-> Len(files), new |-> nf, duplicates |-> df]

headers == <<Col_NazevSouboru>> \o required_fields

\* Variant: the boiler type is taken from the normaliser's canonical key
RowOf_FromKeyFields(data) ==
    <<Get(data, "source_file", EmptyText)>> \o
    [j \in 1..Len(required_fields) |->
        IF required_fields[j] = L_TypKotle
        THEN Get(Get(data, "key_fields", <<>>), "typ_kotle", EmptyText)
        ELSE Get(Get(data, "extracted_fields", <<>>), required_fields[j], EmptyText)]

\* lines 238-252: the row of one artifact
RowOf(data) ==
    <<Get(data, "source_file", EmptyText)>> \o
    [j \in 1..Len(required_fields) |->
        Get(Get(data, "extracted_fields", <<>>), required_fields[j], EmptyText)]

\* Variant: the matrix starts with the first data row
BuildRows_NoHeader(json_data) == [i \in 1..Len(json_data) |-> RowOf(json_data[i])]

BuildRows(json_data) == <<headers>> \o [i \in 1..Len(json_data) |-> RowOf(json_data[i])]

\* Variant: values().append, the matrix goes below the rows already there
UpdateAtA1_Appends(old, matrix) == old \o matrix

\* values().update(range="A1", body={'values': matrix}): the cells the matrix covers
\* are replaced, the rows below it are left as they were
UpdateAtA1(old, matrix) == matrix \o SubSeq(old, Len(matrix) + 1, Len(old))

\* the files whose row a matrix carries
FilesIn(matrix) ==
    {f \in FileNames : \E i \in 2..Len(matrix) : matrix[i] = RowOf(Artifact(f))}

NoFiles == [f \in FileNames |-> 0]

-----------------------------------------------------------------------------
(* Initial state: nothing published yet, no process running *)

SecondOff ==
    /\ pc2 = "down"
    /\ processed_files2 = {}
    /\ json_files2 = <<>>
    /\ new_files2 = <<>>
    /\ duplicate_files2 = <<>>
    /\ rows2 = <<>>
    /\ reg_i2 = 0
    /\ result2 = "none"
    /\ proc_pub2 = NoFiles

MatrixOff ==
    /\ data_in = <<>>
    /\ rows_out = <<>>
    /\ mpc = "off"

RecognitionOff ==
    /\ azure_result = <<>>
    /\ processed_result = <<>>
    /\ rpc = "off"

CompressionOff ==
    /\ entry = "off"
    /\ quality = 0
    /\ attempts = <<>>
    /\ new_size = "none"
    /\ compress_ret = "none"
    /\ original = "present"
    /\ fpc = "off"

DirectoryOff ==
    /\ todo = <<>>
    /\ output_files = <<>>
    /\ moved_files = <<>>
    /\ results = <<>>
    /\ dumped = <<>>
    /\ input_files = {}
    /\ succeeded = {}
    /\ again = {}
    /\ druns = 0
    /\ listing = <<>>
    /\ dpc = "off"

NormaliserOff ==
    /\ analysis_result = <<>>
    /\ key_fields = <<>>
    /\ npc = "off"
    /\ RecognitionOff
    /\ MatrixOff
    /\ CompressionOff
    /\ DirectoryOff

Init ==
    /\ NormaliserOff
    /\ SecondOff
    /\ dir = <<>>
    /\ processed_files_db = <<>>
    /\ db_exists \in BOOLEAN
    /\ duplicates_log = <<>>
    /\ sheet = <<>>
    /\ pc = "down"
    /\ service = FALSE
    /\ processed_files = {}
    /\ json_files = <<>>
    /\ new_files = <<>>
    /\ duplicate_files = <<>>
    /\ rows = <<>>
    /\ reg_i = 0
    /\ result = "none"
    /\ starts = 0
    /\ runs = 0
    /\ ledger0 = {}
    /\ dir0 = <<>>
    /\ db0 = <<>>
    /\ db_start = <<>>
    /\ load_ok = TRUE
    /\ write_call = "none"
    /\ run_written = {}
    /\ append_failed = {}
    /\ unpersisted = {}
    /\ pub_count = NoFiles
    /\ proc_pub = NoFiles

-----------------------------------------------------------------------------
(* Actions *)

\* process_directory dumps the artifact of one more document into the output
\* directory; valid = FALSE stands for a file that cannot be read back as JSON.
\* Arrivals during a sync run are left out: the run works on its glob snapshot.
\* The enumeration order of a directory is fixed by the directory's state; every
\* order arises here, as an arrival order.
ArtifactArrives ==
    /\ UNCHANGED << nvars, vars2 >>
    /\ pc \in {"down", "idle"}
    /\ \E name \in FileNames \ EntryNames(dir) : \E valid \in BOOLEAN :
          dir' = Append(dir, [name |-> name, valid |-> valid])
    /\ UNCHANGED << processed_files_db, db_exists, duplicates_log, sheet,
                    pc, service, processed_files, locals, result,
                    starts, runs, ledger0, dir0, db0, db_start, load_ok, write_call, run_written,
                    append_failed, unpersisted, pub_count, proc_pub >>

\* an artifact file of json_dir is truncated or overwritten with something that
\* is not JSON; its name and its place in the enumeration stay.  Only a file the
\* ledger knows is damaged here: to the program, damage to any other file is the
\* arrival of a file that cannot be read.
ArtifactDamaged ==
    /\ UNCHANGED << nvars, vars2 >>
    /\ pc \in {"down", "idle"}
    /\ \E i \in DOMAIN dir :
          /\ dir[i].valid
          /\ dir[i].name \in processed_files \cup Range(processed_files_db)
          /\ dir' = [dir EXCEPT ![i].valid = FALSE]
    /\ UNCHANGED << processed_files_db, db_exists, duplicates_log, sheet,
                    pc, service, processed_files, locals, result,
                    starts, runs, ledger0, dir0, db0, db_start, load_ok, write_call, run_written,
                    append_failed, unpersisted, pub_count, proc_pub >>

\* GoogleSheetsClient(): _authenticate, then _load_processed_files.  A read that
\* fails after k lines leaves the names of those k lines in the set.
Start ==
    /\ UNCHANGED << nvars, vars2 >>
    /\ pc = "down"
    /\ starts < MaxStarts
    /\ \E auth \in BOOLEAN : service' = auth
    /\ IF db_exists
       THEN /\ \E k \in 0..Len(processed_files_db) :
                  /\ processed_files' = LoadProcessedFiles(SubSeq(processed_files_db, 1, k))
                  /\ load_ok' = (k = Len(processed_files_db))
            /\ UNCHANGED db_exists
       ELSE /\ processed_files' = {}
            /\ db_exists' = TRUE
            /\ load_ok' = TRUE
    /\ pc' = "idle"
    /\ result' = "none"
    /\ starts' = starts + 1
    /\ db_start' = processed_files_db
    /\ unpersisted' = {}
    /\ proc_pub' = NoFiles
    /\ UNCHANGED << dir, processed_files_db, duplicates_log, sheet, locals,
                    runs, ledger0, dir0, db0, write_call, run_written, append_failed,
                    pub_count >>

\* lines 151-221: glob, partition against the ledger, audit log, early returns
SyncScan ==
    /\ UNCHANGED << nvars, vars2 >>
    /\ pc = "idle"
    /\ runs < MaxRuns
    /\ LET files == Glob(dir) IN
        /\ json_files' = files
        /\ IF files = <<>>
           THEN /\ new_files' = <<>>
                /\ duplicate_files' = <<>>
                /\ UNCHANGED duplicates_log
                /\ result' = "False"
                /\ pc' = "idle"
           ELSE /\ new_files' = NewFiles(files, processed_files)
                /\ duplicate_files' = DuplicateFiles(files, processed_files)
                /\ \E logged \in BOOLEAN :
                      duplicates_log' =
                          IF logged
                          THEN Append(duplicates_log,
                                      AuditBlock(files, new_files', duplicate_files'))
                          ELSE duplicates_log
                /\ IF new_files' = <<>>
                   THEN result' = "True" /\ pc' = "idle"
                   ELSE result' = "none" /\ pc' = "scanned"
    /\ rows' = <<>>
    /\ reg_i' = 0
    /\ runs' = runs + 1
    /\ ledger0' = processed_files
    /\ dir0' = dir
    /\ db0' = processed_files_db
    /\ write_call' = "none"
    /\ run_written' = {}
    /\ append_failed' = {}
    /\ UNCHANGED << dir, processed_files_db, db_exists, sheet, service,
                    processed_files, starts, db_start, load_ok, unpersisted,
                    pub_count, proc_pub >>

\* Variant: an artifact that cannot be parsed is skipped and the rest is published
SyncRead_SkipsMalformed ==
    /\ UNCHANGED << nvars, vars2 >>
    /\ pc = "scanned"
    /\ rows' = BuildRows([i \in DOMAIN Filter(new_files, {f \in FileNames : Readable(dir, f)})
                            |-> Artifact(Filter(new_files, {f \in FileNames : Readable(dir, f)})[i])])
    /\ pc' = "built"
    /\ UNCHANGED result
    /\ UNCHANGED << durable, service, processed_files, json_files, new_files,
                    duplicate_files, reg_i,
                    starts, runs, ledger0, dir0, db0, db_start, load_ok, write_call, run_written,
                    append_failed, unpersisted, pub_count, proc_pub >>

\* Variant: every artifact of the directory is opened, the duplicates too
SyncRead_OpensDuplicates ==
    /\ UNCHANGED << nvars, vars2 >>
    /\ pc = "scanned"
    /\ IF \E i \in DOMAIN json_files : ~Readable(dir, json_files[i])
       THEN /\ result' = "False"
            /\ pc' = "idle"
            /\ UNCHANGED rows
       ELSE /\ rows' = BuildRows([i \in DOMAIN new_files |-> Artifact(new_files[i])])
            /\ pc' = "built"
            /\ UNCHANGED result
    /\ UNCHANGED << durable, service, processed_files, json_files, new_files,
                    duplicate_files, reg_i,
                    starts, runs, ledger0, dir0, db0, db_start, load_ok, write_call, run_written,
                    append_failed, unpersisted, pub_count, proc_pub >>

\* lines 223-252: read every new artifact, build the matrix; an artifact that
\* cannot be opened or parsed raises, and line 275 turns that into return False
SyncRead ==
    /\ UNCHANGED << nvars, vars2 >>
    /\ pc = "scanned"
    /\ IF \E i \in DOMAIN new_files : ~Readable(dir, new_files[i])
       THEN /\ result' = "False"
            /\ pc' = "idle"
            /\ UNCHANGED rows
       ELSE /\ rows' = BuildRows([i \in DOMAIN new_files |-> Artifact(new_files[i])])
            /\ pc' = "built"
            /\ UNCHANGED result
    /\ UNCHANGED << durable, service, processed_files, json_files, new_files,
                    duplicate_files, reg_i,
                    starts, runs, ledger0, dir0, db0, db_start, load_ok, write_call, run_written,
                    append_failed, unpersisted, pub_count, proc_pub >>

\* lines 254-265: the destination accepts the matrix
SyncWriteOk ==
    /\ UNCHANGED << nvars, vars2 >>
    /\ pc = "built"
    /\ service
    /\ sheet' = UpdateAtA1(sheet, rows)
    /\ pc' = "written"
    /\ reg_i' = 1
    /\ write_call' = "ok"
    /\ run_written' = FilesIn(rows)
    /\ pub_count' = [f \in FileNames |-> pub_count[f] + (IF f \in FilesIn(rows) THEN 1 ELSE 0)]
    /\ proc_pub' = [f \in FileNames |-> proc_pub[f] + (IF f \in FilesIn(rows) THEN 1 ELSE 0)]
    /\ UNCHANGED << dir, processed_files_db, db_exists, duplicates_log,
                    service, processed_files, json_files, new_files, duplicate_files,
                    rows, result,
                    starts, runs, ledger0, dir0, db0, db_start, load_ok, append_failed,
                    unpersisted >>

\* Variant: the registration loop runs although the write raised
SyncWriteFail_StillRegisters ==
    /\ UNCHANGED << nvars, vars2 >>
    /\ pc = "built"
    /\ pc' = "written"
    /\ reg_i' = 1
    /\ write_call' = "failed"
    /\ UNCHANGED << durable, service, processed_files, json_files, new_files,
                    duplicate_files, rows, result,
                    starts, runs, ledger0, dir0, db0, db_start, load_ok, run_written,
                    append_failed, unpersisted, pub_count, proc_pub >>

\* Variant: the new files are put into the in-memory set before the write is tried
SyncWriteFail_MarksProcessed ==
    /\ UNCHANGED << nvars, vars2 >>
    /\ pc = "built"
    /\ result' = "False"
    /\ pc' = "idle"
    /\ write_call' = "failed"
    /\ processed_files' = processed_files \cup Range(new_files)
    /\ UNCHANGED << durable, service, locals,
                    starts, runs, ledger0, dir0, db0, db_start, load_ok, run_written,
                    append_failed, unpersisted, pub_count, proc_pub >>

\* lines 257-262 raise (no service, authorization, quota, network); lines 275-277
SyncWriteFail ==
    /\ UNCHANGED << nvars, vars2 >>
    /\ pc = "built"
    /\ result' = "False"
    /\ pc' = "idle"
    /\ write_call' = "failed"
    /\ UNCHANGED << durable, service, processed_files, locals,
                    starts, runs, ledger0, dir0, db0, db_start, load_ok, run_written,
                    append_failed, unpersisted, pub_count, proc_pub >>

\* lines 268-269: one iteration of the registration loop
SyncRegister ==
    /\ UNCHANGED << nvars, vars2 >>
    /\ pc = "written"
    /\ reg_i <= Len(new_files)
    /\ \E persisted \in BOOLEAN :
        /\ AddToProcessed(new_files[reg_i], persisted)
        /\ LET lost == IF persisted \/ new_files[reg_i] \in processed_files
                       THEN {} ELSE {new_files[reg_i]}
           IN  /\ append_failed' = append_failed \cup lost
               /\ unpersisted' = unpersisted \cup lost
    /\ reg_i' = reg_i + 1
    /\ UNCHANGED << dir, duplicates_log, sheet, pc, service, json_files, new_files,
                    duplicate_files, rows, result,
                    starts, runs, ledger0, dir0, db0, db_start, load_ok, write_call, run_written,
                    pub_count, proc_pub >>

\* lines 271-273
SyncFinish ==
    /\ UNCHANGED << nvars, vars2 >>
    /\ pc = "written"
    /\ reg_i > Len(new_files)
    /\ result' = "True"
    /\ pc' = "idle"
    /\ UNCHANGED << durable, service, processed_files, locals,
                    starts, runs, ledger0, dir0, db0, db_start, load_ok, write_call, run_written,
                    append_failed, unpersisted, pub_count, proc_pub >>

\* the process is killed or exits: everything in memory is gone
Terminate ==
    /\ UNCHANGED << nvars, vars2 >>
    /\ pc # "down"
    /\ pc' = "down"
    /\ service' = FALSE
    /\ processed_files' = {}
    /\ json_files' = <<>>
    /\ new_files' = <<>>
    /\ duplicate_files' = <<>>
    /\ rows' = <<>>
    /\ reg_i' = 0
    /\ result' = "none"
    /\ UNCHANGED << durable,
                    starts, runs, ledger0, dir0, db0, db_start, load_ok, write_call, run_written,
                    append_failed, unpersisted, pub_count, proc_pub >>

Next ==
    \/ ArtifactArrives
    \/ Start
    \/ SyncScan
    \/ SyncRead
    \/ SyncWriteOk
    \/ SyncWriteFail
    \/ SyncRegister
    \/ SyncFinish
    \/ Terminate

Spec == Init /\ [][Next]_vars

\* one process, never restarted, over a json_dir whose registered artifacts may
\* get damaged between its runs
NextDamage ==
    \/ ArtifactArrives
    \/ ArtifactDamaged
    \/ Start
    \/ SyncScan
    \/ SyncRead
    \/ SyncWriteOk
    \/ SyncWriteFail
    \/ SyncRegister
    \/ SyncFinish

SpecDamage == Init /\ [][NextDamage]_vars

\* the same program over a json_dir that holds a stray file from the outset
InitStray ==
    /\ NormaliserOff
    /\ SecondOff
    /\ dir = << [name |-> StrayFile, valid |-> TRUE] >>
    /\ processed_files_db = <<>>
    /\ db_exists \in BOOLEAN
    /\ duplicates_log = <<>>
    /\ sheet = <<>>
    /\ pc = "down"
    /\ service = FALSE
    /\ processed_files = {}
    /\ json_files = <<>>
    /\ new_files = <<>>
    /\ duplicate_files = <<>>
    /\ rows = <<>>
    /\ reg_i = 0
    /\ result = "none"
    /\ starts = 0
    /\ runs = 0
    /\ ledger0 = {}
    /\ dir0 = <<>>
    /\ db0 = <<>>
    /\ db_start = <<>>
    /\ load_ok = TRUE
    /\ write_call = "none"
    /\ run_written = {}
    /\ append_failed = {}
    /\ unpersisted = {}
    /\ pub_count = NoFiles
    /\ proc_pub = NoFiles

SpecStray == InitStray /\ [][Next]_vars

-----------------------------------------------------------------------------
(* Two GoogleSheetsClient processes that share json_dir, processed_files.txt,
   duplicates_log.txt and the destination, with nothing to exclude one another *)

\* what the first process owns: the second never touches it
vars1 == << pc, service, processed_files, locals, result,
            starts, ledger0, dir0, db0, db_start, load_ok, write_call, run_written,
            append_failed, unpersisted, proc_pub >>

locals2 == << json_files2, new_files2, duplicate_files2, rows2, reg_i2 >>

\* Variant: the identifier is appended without the in-memory test, twice
AddToProcessed2_Twice(filename, persisted) ==
    /\ processed_files2' = processed_files2 \cup {filename}
    /\ processed_files_db' =
           IF persisted THEN processed_files_db \o <<filename, filename>>
           ELSE processed_files_db
    /\ db_exists' = (db_exists \/ persisted)

\* _add_to_processed(filename) of the second process
AddToProcessed2(filename, persisted) ==
    IF filename \notin processed_files2
    THEN /\ processed_files2' = processed_files2 \cup {filename}
         /\ processed_files_db' =
                IF persisted THEN Append(processed_files_db, filename)
                ELSE processed_files_db
         /\ db_exists' = (db_exists \/ persisted)
    ELSE UNCHANGED << processed_files2, processed_files_db, db_exists >>

\* GoogleSheetsClient() in the second process
Start2 ==
    /\ UNCHANGED << nvars, vars1 >>
    /\ pc2 = "down"
    /\ IF db_exists
       THEN /\ \E k \in 0..Len(processed_files_db) :
                  processed_files2' = LoadProcessedFiles(SubSeq(processed_files_db, 1, k))
            /\ UNCHANGED db_exists
       ELSE /\ processed_files2' = {}
            /\ db_exists' = TRUE
    /\ pc2' = "idle"
    /\ result2' = "none"
    /\ UNCHANGED << dir, processed_files_db, duplicates_log, sheet, locals2,
                    proc_pub2, runs, pub_count >>

\* lines 151-221 in the second process
SyncScan2 ==
    /\ UNCHANGED << nvars, vars1 >>
    /\ pc2 = "idle"
    /\ runs < MaxRuns
    /\ LET files == Glob(dir) IN
        /\ json_files2' = files
        /\ IF files = <<>>
           THEN /\ new_files2' = <<>>
                /\ duplicate_files2' = <<>>
                /\ UNCHANGED duplicates_log
                /\ result2' = "False"
                /\ pc2' = "idle"
           ELSE /\ new_files2' = NewFiles(files, processed_files2)
                /\ duplicate_files2' = DuplicateFiles(files, processed_files2)
                /\ \E logged \in BOOLEAN :
                      duplicates_log' =
                          IF logged
                          THEN Append(duplicates_log,
                                      AuditBlock(files, new_files2', duplicate_files2'))
                          ELSE duplicates_log
                /\ IF new_files2' = <<>>
                   THEN result2' = "True" /\ pc2' = "idle"
                   ELSE result2' = "none" /\ pc2' = "scanned"
    /\ rows2' = <<>>
    /\ reg_i2' = 0
    /\ runs' = runs + 1
    /\ UNCHANGED << dir, processed_files_db, db_exists, sheet, processed_files2,
                    proc_pub2, pub_count >>

\* lines 223-252 in the second process
SyncRead2 ==
    /\ UNCHANGED << nvars, vars1 >>
    /\ pc2 = "scanned"
    /\ IF \E i \in DOMAIN new_files2 : ~Readable(dir, new_files2[i])
       THEN /\ result2' = "False"
            /\ pc2' = "idle"
            /\ UNCHANGED rows2
       ELSE /\ rows2' = BuildRows([i \in DOMAIN new_files2 |-> Artifact(new_files2[i])])
            /\ pc2' = "built"
            /\ UNCHANGED result2
    /\ UNCHANGED << durable, processed_files2, json_files2, new_files2,
                    duplicate_files2, reg_i2, proc_pub2, runs, pub_count >>

\* lines 254-265 in the second process: the destination accepts the matrix
SyncWriteOk2 ==
    /\ UNCHANGED << nvars, vars1 >>
    /\ pc2 = "built"
    /\ sheet' = UpdateAtA1(sheet, rows2)
    /\ pc2' = "written"
    /\ reg_i2' = 1
    /\ pub_count' = [f \in FileNames |-> pub_count[f] + (IF f \in FilesIn(rows2) THEN 1 ELSE 0)]
    /\ proc_pub2' = [f \in FileNames |-> proc_pub2[f] + (IF f \in FilesIn(rows2) THEN 1 ELSE 0)]
    /\ UNCHANGED << dir, processed_files_db, db_exists, duplicates_log,
                    processed_files2, json_files2, new_files2, duplicate_files2,
                    rows2, result2, runs >>

\* lines 257-262 raise in the second process (no service, quota, network)
SyncWriteFail2 ==
    /\ UNCHANGED << nvars, vars1 >>
    /\ pc2 = "built"
    /\ result2' = "False"
    /\ pc2' = "idle"
    /\ UNCHANGED << durable, processed_files2, locals2, proc_pub2, runs, pub_count >>

\* lines 268-269 in the second process: one iteration of the registration loop
SyncRegister2 ==
    /\ UNCHANGED << nvars, vars1 >>
    /\ pc2 = "written"
    /\ reg_i2 <= Len(new_files2)
    /\ \E persisted \in BOOLEAN : AddToProcessed2(new_files2[reg_i2], persisted)
    /\ reg_i2' = reg_i2 + 1
    /\ UNCHANGED << dir, duplicates_log, sheet, pc2, json_files2, new_files2,
                    duplicate_files2, rows2, result2, proc_pub2, runs, pub_count >>

\* lines 271-273 in the second process
SyncFinish2 ==
    /\ UNCHANGED << nvars, vars1 >>
    /\ pc2 = "written"
    /\ reg_i2 > Len(new_files2)
    /\ result2' = "True"
    /\ pc2' = "idle"
    /\ UNCHANGED << durable, processed_files2, locals2, proc_pub2, runs, pub_count >>

\* the artifacts are in json_dir before either process starts; neither process
\* restarts; MaxRuns bounds the runs of the two together
NextTwoInstances ==
    \/ (pc = "down" /\ pc2 = "down" /\ ArtifactArrives)
    \/ Start
    \/ SyncScan
    \/ SyncRead
    \/ SyncWriteOk
    \/ SyncWriteFail
    \/ SyncRegister
    \/ SyncFinish
    \/ Start2
    \/ SyncScan2
    \/ SyncRead2
    \/ SyncWriteOk2
    \/ SyncWriteFail2
    \/ SyncRegister2
    \/ SyncFinish2

SpecTwoInstances == Init /\ [][NextTwoInstances]_vars

-----------------------------------------------------------------------------
(* The field normaliser: extract_key_fields and _get_field_keywords *)

UpperCase == <<"A","B","C","D","E","F","G","H","I","J","K","L","M","N","O","P","Q","R",
               "S","T","U","V","W","X","Y","Z","A'","C^","E'","E^","I'","R^","S^","U'","Y'","Z^">>
LowerCase == <<"a","b","c","d","e","f","g","h","i","j","k","l","m","n","o","p","q","r",
               "s","t","u","v","w","x","y","z","a'","c^","e'","e^","i'","r^","s^","u'","y'","z^">>

LowerChar(c) ==
    IF \E i \in DOMAIN UpperCase : UpperCase[i] = c
    THEN LowerCase[CHOOSE i \in DOMAIN UpperCase : UpperCase[i] = c]
    ELSE c

\* str.lower()
Lower(s) == [i \in DOMAIN s |-> LowerChar(s[i])]

\* keyword in text
Contains(text, keyword) ==
    \E i \in 0..(Len(text) - Len(keyword)) : SubSeq(text, i + 1, i + Len(keyword)) = keyword

\* a or b, on strings
PyOr(a, b) == IF a # EmptyText THEN a ELSE b

CanonicalKeys ==
    { "jmeno_zakaznika", "adresa_zakaznika", "datum_instalace", "typ_kotle",
      "vyrobni_cislo", "prodejce", "adresa_prodejce", "regulators", "cislo_opravneni" }

\* Variant: a key is entered only when its value was found
KeyFieldValues_OnlyFound(fields) ==
    [k \in {c \in CanonicalKeys :
              CASE c = "jmeno_zakaznika"  -> L_KupujiciJmeno_Key \in DOMAIN fields
                [] c = "adresa_zakaznika" -> L_AdresaZakaznika \in DOMAIN fields
                [] c = "datum_instalace"  -> L_DatumProvozu \in DOMAIN fields
                [] c = "typ_kotle"        -> L_TypKotle \in DOMAIN fields
                [] c = "vyrobni_cislo"    -> L_VyrobniCislo \in DOMAIN fields
                [] c = "prodejce"         -> L_ProdejceKotle \in DOMAIN fields
                [] c = "adresa_prodejce"  -> L_AdresaProdejce \in DOMAIN fields
                [] c = "regulators"       -> L_Regulator \in DOMAIN fields
                [] c = "cislo_opravneni"  -> L_CisloOpravneni \in DOMAIN fields}
     |-> CASE k = "jmeno_zakaznika"  -> fields[L_KupujiciJmeno_Key]
           [] k = "adresa_zakaznika" -> fields[L_AdresaZakaznika]
           [] k = "datum_instalace"  -> fields[L_DatumProvozu]
           [] k = "typ_kotle"        -> fields[L_TypKotle]
           [] k = "vyrobni_cislo"    -> fields[L_VyrobniCislo]
           [] k = "prodejce"         -> fields[L_ProdejceKotle]
           [] k = "adresa_prodejce"  -> fields[L_AdresaProdejce]
           [] k = "regulators"       -> fields[L_Regulator]
           [] k = "cislo_opravneni"  -> fields[L_CisloOpravneni]]

\* lines 158-168: the dict literal
KeyFieldValues(fields) ==
    [k \in CanonicalKeys |->
        CASE k = "jmeno_zakaznika"  -> Get(fields, L_KupujiciJmeno_Key, EmptyText)
          [] k = "adresa_zakaznika" -> PyOr(Get(fields, L_AdresaZakaznika, EmptyText),
                                            Get(fields, L_AdresaDoplneni_Key, EmptyText))
          [] k = "datum_instalace"  -> Get(fields, L_DatumProvozu, EmptyText)
          [] k = "typ_kotle"        -> Get(fields, L_TypKotle, EmptyText)
          [] k = "vyrobni_cislo"    -> Get(fields, L_VyrobniCislo, EmptyText)
          [] k = "prodejce"         -> Get(fields, L_ProdejceKotle, EmptyText)
          [] k = "adresa_prodejce"  -> Get(fields, L_AdresaProdejce, EmptyText)
          [] k = "regulators"       -> Get(fields, L_Regulator, EmptyText)
          [] k = "cislo_opravneni"  -> Get(fields, L_CisloOpravneni, EmptyText)]

\* _get_field_keywords; the default [field_name] is never reached from
\* extract_key_fields, whose field names are the nine above
get_field_keywords(field_name) ==
    CASE field_name = "jmeno_zakaznika"  ->
            << <<"k","u","p","u","j","i'","c","i'">>, <<"j","m","e'","n","o">> >>
      [] field_name = "adresa_zakaznika" ->
            << L_AdresaZakaznika, <<"a","d","r","e","s","a">> >>
      [] field_name = "datum_instalace"  ->
            << <<"d","a","t","u","m">>, <<"u","v","e","d","e","n","i'">>,
               <<"p","r","o","v","o","z","u">> >>
      [] field_name = "typ_kotle"        -> << <<"t","y","p">>, <<"k","o","t","l","e">> >>
      [] field_name = "vyrobni_cislo"    ->
            << <<"v","y'","r","o","b","n","i'">>, <<"c^","i'","s","l","o">> >>
      [] field_name = "prodejce"         -> << <<"p","r","o","d","e","j","c","e">> >>
      [] field_name = "adresa_prodejce"  -> << L_AdresaProdejce >>
      [] field_name = "regulators"       -> << L_Regulator >>
      [] field_name = "cislo_opravneni"  ->
            << <<"o","p","r","a'","v","n","e^","n","i'">> >>
      [] OTHER -> << <<field_name>> >>

\* line 175: any(keyword in original_field.lower() for keyword in ...)
KeywordMatches(original_field, field_name) ==
    LET text == Lower(original_field)
        keywords == get_field_keywords(field_name)
    IN  \E j \in DOMAIN keywords : Contains(text, keywords[j])

\* Variant: the last matching item wins (the loop has no break)
FirstMatch_LastWins(confidence_scores, field_name) ==
    IF \E i \in DOMAIN confidence_scores :
            KeywordMatches(confidence_scores[i].label, field_name)
    THEN CHOOSE i \in DOMAIN confidence_scores :
            /\ KeywordMatches(confidence_scores[i].label, field_name)
            /\ \A j \in (i + 1)..Len(confidence_scores) :
                  ~KeywordMatches(confidence_scores[j].label, field_name)
    ELSE 0

\* lines 174-177: position of the first matching item of confidence_scores, 0 if none
FirstMatch(confidence_scores, field_name) ==
    IF \E i \in DOMAIN confidence_scores :
            KeywordMatches(confidence_scores[i].label, field_name)
    THEN CHOOSE i \in DOMAIN confidence_scores :
            /\ KeywordMatches(confidence_scores[i].label, field_name)
            /\ \A j \in 1..(i - 1) : ~KeywordMatches(confidence_scores[j].label, field_name)
    ELSE 0

ConfidenceKey(field_name) == field_name \o "_confidence"

\* lines 170-177: the confidence entries added to key_fields
ConfidenceEntries(confidence_scores) ==
    [ck \in {ConfidenceKey(k) : k \in {c \in CanonicalKeys :
                                          FirstMatch(confidence_scores, c) # 0}} |->
        LET k == CHOOSE c \in CanonicalKeys : ConfidenceKey(c) = ck
        IN  confidence_scores[FirstMatch(confidence_scores, k)].confidence]

\* extract_key_fields(analysis_result).  A dict whose order is read
\* (confidence_scores) is a sequence of [label, confidence] items.
extract_key_fields(ar) ==
    LET fields == Get(ar, "extracted_fields", <<>>)
        confidence_scores == Get(ar, "confidence_scores", <<>>)
    IN  ConfidenceEntries(confidence_scores) @@ KeyFieldValues(fields)

\* ---- inputs ----

\* the raw labels the model's inputs are drawn from
InputLabels ==
    { L_KupujiciJmeno_Key, L_AdresaZakaznika, L_AdresaDoplneni_Key, L_DatumProvozu,
      L_TypKotle, L_VyrobniCislo, L_ProdejceKotle, L_AdresaProdejce, L_Regulator,
      L_CisloOpravneni, L_TypVyrobku }

\* a field's content: empty, or a text that names the label it came from
ValueOf(label) == <<"=">> \o label

FieldMappings ==
    UNION { {f \in [S -> {EmptyText} \cup {ValueOf(l) : l \in S}] :
                \A l \in S : f[l] \in {EmptyText, ValueOf(l)}} :
            S \in {T \in SUBSET InputLabels : Cardinality(T) <= MaxFields} }

Confidences == {50, 91}

ScoreMappings ==
    UNION { {sc \in [1..n -> [label : InputLabels, confidence : Confidences]] :
                \A i, j \in 1..n : sc[i].label = sc[j].label => i = j} :
            n \in 0..MaxScores }

\* _process_result, lines 137-139: a field with content enters both dicts under
\* the same name, in the same order
ProcessedFields(sc) ==
    [l \in {sc[i].label : i \in DOMAIN sc} |-> ValueOf(l)]

\* the dicts passed to extract_key_fields: either entry may be missing; both
\* present are the pair _process_result builds, or one field beside one score
AnalysisResults ==
    {[source_file |-> <<"a",".","p","d","f">>]}
    \cup {[source_file |-> <<"a",".","p","d","f">>, extracted_fields |-> f] :
              f \in FieldMappings}
    \cup {[source_file |-> <<"a",".","p","d","f">>, confidence_scores |-> sc] :
              sc \in ScoreMappings}
    \cup {[source_file |-> <<"a",".","p","d","f">>,
           extracted_fields |-> ProcessedFields(sc), confidence_scores |-> sc] :
              sc \in ScoreMappings}
    \cup {[source_file |-> <<"a",".","p","d","f">>, extracted_fields |-> f,
           confidence_scores |-> sc] :
              f \in {g \in FieldMappings : Cardinality(DOMAIN g) <= 1},
              sc \in {t \in ScoreMappings : Len(t) <= 1}}

SyncOff ==
    /\ SecondOff
    /\ dir = <<>>
    /\ processed_files_db = <<>>
    /\ db_exists = FALSE
    /\ duplicates_log = <<>>
    /\ sheet = <<>>
    /\ pc = "down"
    /\ service = FALSE
    /\ processed_files = {}
    /\ json_files = <<>>
    /\ new_files = <<>>
    /\ duplicate_files = <<>>
    /\ rows = <<>>
    /\ reg_i = 0
    /\ result = "none"
    /\ starts = 0
    /\ runs = 0
    /\ ledger0 = {}
    /\ dir0 = <<>>
    /\ db0 = <<>>
    /\ db_start = <<>>
    /\ load_ok = TRUE
    /\ write_call = "none"
    /\ run_written = {}
    /\ append_failed = {}
    /\ unpersisted = {}
    /\ pub_count = NoFiles
    /\ proc_pub = NoFiles

svars == << vars2, dir, processed_files_db, db_exists, duplicates_log, sheet,
            pc, service, processed_files, json_files, new_files, duplicate_files,
            rows, reg_i, result,
            starts, runs, ledger0, dir0, db0, db_start, load_ok, write_call, run_written,
            append_failed, unpersisted, pub_count, proc_pub >>

InitNormaliser ==
    /\ SyncOff
    /\ RecognitionOff
    /\ MatrixOff
    /\ CompressionOff
    /\ DirectoryOff
    /\ analysis_result \in AnalysisResults
    /\ key_fields = <<>>
    /\ npc = "input"

\* one call of extract_key_fields
ExtractKeyFields ==
    /\ npc = "input"
    /\ key_fields' = extract_key_fields(analysis_result)
    /\ npc' = "done"
    /\ UNCHANGED << analysis_result, svars, rvars, mvars, dvars, cvars >>

NextNormaliser == ExtractKeyFields

SpecNormaliser == InitNormaliser /\ [][NextNormaliser]_vars

-----------------------------------------------------------------------------
(* The result converter: _process_result *)

\* the fields of the extraction model, in the order a document lists them
ModelFields == << L_TypKotle, L_Regulator >>

DocLetters == <<"X", "Y", "Z", "W", "V">>

\* the content of a field occurrence: a text naming the document and the label
DocContent(d, label) == <<DocLetters[d], "=">> \o label

\* a field occurrence of document d: content None or "" (one falsy value, the
\* empty text) or a text; confidence None (no entry) or a number
FieldOccurrences(d, label) ==
    { [name |-> label, content |-> EmptyText, confidence |-> 50] }
    \cup { [name |-> label, content |-> DocContent(d, label)] }
    \cup { [name |-> label, content |-> DocContent(d, label), confidence |-> c] :
              c \in Confidences }

\* document.fields of document d: a dict over some of the model's fields
RECURSIVE FieldLists(_, _)
FieldLists(d, labels) ==
    IF labels = <<>> THEN { <<>> }
    ELSE LET rest == FieldLists(d, Tail(labels))
         IN  rest \cup { <<f>> \o r : f \in FieldOccurrences(d, Head(labels)), r \in rest }

\* document d of result.documents; document.fields may be None (no entry)
AzureDocuments(d) ==
    { [doc_type |-> "warranty"] }
    \cup { [doc_type |-> "warranty", fields |-> fl] : fl \in FieldLists(d, ModelFields) }

\* the values of result.documents: lists of up to MaxDocs documents
RECURSIVE DocumentLists(_)
DocumentLists(n) ==
    IF n = 0 THEN { <<>> }
    ELSE { Append(ds, doc) : ds \in DocumentLists(n - 1), doc \in AzureDocuments(n) }

\* the AnalyzeResult objects; result.documents may be None (no entry)
AzureResults ==
    { [model_id |-> "model", api_version |-> "v", content |-> "raw"] }
    \cup { [model_id |-> "model", api_version |-> "v", content |-> "raw", documents |-> ds] :
              ds \in UNION { DocumentLists(n) : n \in 0..MaxDocs } }

SourceName == <<"a", ".", "p", "d", "f">>

\* every field of every document, in the order lines 131-136 visit them
RECURSIVE AllFields(_)
AllFields(documents) ==
    IF documents = <<>> THEN <<>>
    ELSE Get(Head(documents), "fields", <<>>) \o AllFields(Tail(documents))

\* dict[key] = value on a dict kept as a sequence of items: an existing key keeps
\* its place
SetItem(items, label, confidence) ==
    IF \E i \in DOMAIN items : items[i].label = label
    THEN [i \in DOMAIN items |->
            IF items[i].label = label
            THEN [label |-> label, confidence |-> confidence] ELSE items[i]]
    ELSE Append(items, [label |-> label, confidence |-> confidence])

\* lines 134-141: the loop over the fields; formatting a confidence of None with
\* .2% (line 141) raises TypeError
RECURSIVE CopyFields(_, _, _)
CopyFields(fields, ef, cs) ==
    IF fields = <<>>
    THEN [raised |-> FALSE, extracted_fields |-> ef, confidence_scores |-> cs]
    ELSE LET field == Head(fields)
         IN  IF field.content = EmptyText
             THEN CopyFields(Tail(fields), ef, cs)
             ELSE IF "confidence" \notin DOMAIN field
             THEN [raised |-> TRUE, extracted_fields |-> ef, confidence_scores |-> cs]
             ELSE CopyFields(Tail(fields),
                             (field.name :> field.content) @@ ef,
                             SetItem(cs, field.name, field.confidence))

\* _process_result(result, source_name): the dict returned, or raised |-> TRUE
process_result(res, source_name) ==
    LET documents == Get(res, "documents", <<>>)
        copied == CopyFields(AllFields(documents), <<>>, <<>>)
    IN  IF copied.raised
        THEN [raised |-> TRUE]
        ELSE [ source_file |-> source_name,
               status |-> "success",
               model_id |-> res.model_id,
               api_version |-> res.api_version,
               extracted_fields |-> copied.extracted_fields,
               raw_content |-> res.content,
               confidence_scores |-> copied.confidence_scores,
               document_count |-> Len(documents) ]

InitRecognition ==
    /\ SyncOff
    /\ MatrixOff
    /\ CompressionOff
    /\ DirectoryOff
    /\ analysis_result = <<>>
    /\ key_fields = <<>>
    /\ npc = "off"
    /\ azure_result \in AzureResults
    /\ processed_result = <<>>
    /\ rpc = "input"

\* one call of _process_result
ProcessResult ==
    /\ rpc = "input"
    /\ LET r == process_result(azure_result, SourceName)
       IN  IF "raised" \in DOMAIN r
           THEN processed_result' = <<>> /\ rpc' = "raised"
           ELSE processed_result' = r /\ rpc' = "returned"
    /\ UNCHANGED << azure_result, analysis_result, key_fields, npc, svars, mvars, dvars,
                    cvars >>

NextRecognition == ProcessResult

SpecRecognition == InitRecognition /\ [][NextRecognition]_vars

-----------------------------------------------------------------------------
(* The matrix builder of upload_azure_json_data, over arbitrary artifacts *)

\* the labels an artifact's extracted_fields may carry: the ten of the header,
\* the two the normaliser spells differently, one of another document type
ArtifactLabels ==
    Range(required_fields) \cup {L_KupujiciJmeno_Key, L_AdresaDoplneni_Key, L_TypVyrobku}

ArtifactFields ==
    UNION { {f \in [S -> {EmptyText} \cup {ValueOf(l) : l \in S}] :
                \A l \in S : f[l] \in {EmptyText, ValueOf(l)}} :
            S \in {T \in SUBSET ArtifactLabels : Cardinality(T) <= MaxFields} }

\* the key_fields entry process_directory adds to an artifact
SampleKeyFields == [typ_kotle |-> <<"K">>, regulators |-> <<"R">>]

\* json.load of an artifact file: a dict, each of its entries optional
ArtifactData ==
    LET sources == { <<>>, [source_file |-> SourceName] }
        fields == { <<>> } \cup { [extracted_fields |-> f] : f \in ArtifactFields }
        keys == { <<>>, [key_fields |-> SampleKeyFields] }
    IN  { a @@ b @@ c : a \in sources, b \in fields, c \in keys }

\* the lists of parsed artifacts: one artifact, or one before an artifact of json_dir
JsonDataLists ==
    { <<d>> : d \in ArtifactData }
    \cup { <<d, Artifact(n)>> : d \in ArtifactData, n \in FileNames }

InitMatrix ==
    /\ SyncOff
    /\ analysis_result = <<>>
    /\ key_fields = <<>>
    /\ npc = "off"
    /\ RecognitionOff
    /\ DirectoryOff
    /\ CompressionOff
    /\ data_in \in JsonDataLists
    /\ rows_out = <<>>
    /\ mpc = "input"

\* lines 232-252 on json_data
BuildMatrix ==
    /\ mpc = "input"
    /\ rows_out' = BuildRows(data_in)
    /\ mpc' = "done"
    /\ UNCHANGED << data_in, analysis_result, key_fields, npc, rvars, svars, dvars,
                    cvars >>

NextMatrix == BuildMatrix

SpecMatrix == InitMatrix /\ [][NextMatrix]_vars

-----------------------------------------------------------------------------
(* process_directory: the batch analysis of an input directory *)

\* the longest listing of the input directory
MaxFiles == 3

Ext_pdf == <<".","p","d","f">>
Ext_JPG == <<".","J","P","G">>
Ext_txt == <<".","t","x","t">>

supported_formats ==
    { Ext_pdf, <<".","j","p","g">>, <<".","j","p","e","g">>, <<".","p","n","g">>,
      <<".","t","i","f","f">>, <<".","t","i","f">>, <<".","b","m","p">> }

\* what rglob('*') may yield below input_dir: files of the same stem with another
\* extension or in a subdirectory, another document, a file of a format that is
\* not supported, and the subdirectory itself
InputPaths ==
    { [parent |-> "", stem |-> <<"a">>, suffix |-> Ext_pdf, is_file |-> TRUE],
      [parent |-> "", stem |-> <<"a">>, suffix |-> Ext_JPG, is_file |-> TRUE],
      [parent |-> "sub", stem |-> <<"a">>, suffix |-> Ext_pdf, is_file |-> TRUE],
      [parent |-> "", stem |-> <<"b">>, suffix |-> Ext_pdf, is_file |-> TRUE],
      [parent |-> "", stem |-> <<"n">>, suffix |-> Ext_txt, is_file |-> TRUE],
      [parent |-> "", stem |-> <<"s","u","b">>, suffix |-> <<>>, is_file |-> FALSE] }

\* the listings: up to MaxFiles distinct paths in any order
RECURSIVE Listings(_)
Listings(n) ==
    IF n = 0 THEN { <<>> }
    ELSE LET shorter == Listings(n - 1)
         IN  shorter \cup { Append(l, p) : l \in shorter, p \in InputPaths }

DistinctListings ==
    { l \in Listings(MaxFiles) : \A i, j \in DOMAIN l : l[i] = l[j] => i = j }

\* file_path.name
PathName(file_path) == file_path.stem \o file_path.suffix

\* Variant: the extension is compared as it is written
IsSupported_CaseSensitive(file_path) ==
    file_path.is_file /\ file_path.suffix \in supported_formats

\* line 219
IsSupported(file_path) ==
    file_path.is_file /\ Lower(file_path.suffix) \in supported_formats

\* line 229: output_path / f"{file_path.stem}_analysis.json"
OutputFile(file_path) == file_path.stem \o Suffix

\* what the service does with one document: it fails, or it returns a result
\* with one filled field, with a confidence or without one
SampleField(with_confidence) ==
    IF with_confidence
    THEN [name |-> L_TypKotle, content |-> DocContent(1, L_TypKotle), confidence |-> 91]
    ELSE [name |-> L_TypKotle, content |-> DocContent(1, L_TypKotle)]

SampleResult(with_confidence) ==
    [ model_id |-> "model", api_version |-> "v", content |-> "raw",
      documents |-> << [doc_type |-> "warranty",
                        fields |-> << SampleField(with_confidence) >>] >> ]

ServiceOutcomes ==
    { [ok |-> FALSE] }
    \cup { [ok |-> TRUE, result |-> SampleResult(c)] : c \in BOOLEAN }

\* analyze_document_from_file: the processed dict, or None (the empty value)
\* when the call or _process_result raised (lines 76-78)
analyze_document_from_file(file_path, outcome) ==
    IF ~outcome.ok THEN <<>>
    ELSE LET r == process_result(outcome.result, PathName(file_path))
         IN  IF "raised" \in DOMAIN r THEN <<>> ELSE r

\* lines 247-252
FailedResult(file_path) ==
    [ source_file |-> PathName(file_path), status |-> "failed",
      error |-> "failed", moved_to_processed |-> FALSE ]

InitDirectory ==
    /\ SyncOff
    /\ analysis_result = <<>>
    /\ key_fields = <<>>
    /\ npc = "off"
    /\ RecognitionOff
    /\ MatrixOff
    /\ CompressionOff
    /\ todo \in DistinctListings
    /\ output_files = <<>>
    /\ moved_files = <<>>
    /\ results = <<>>
    /\ dumped = <<>>
    /\ input_files = Range(todo)
    /\ succeeded = {}
    /\ again = {}
    /\ druns = 1
    /\ listing = todo
    /\ dpc = "loop"

\* one iteration of the loop of line 218
ProcessFile ==
    /\ dpc = "loop"
    /\ todo # <<>>
    /\ LET file_path == Head(todo) IN
        IF ~IsSupported(file_path)
        THEN UNCHANGED << output_files, moved_files, results, dumped, input_files,
                          succeeded, again >>
        ELSE \E outcome \in ServiceOutcomes, move_ok \in BOOLEAN :
                LET analysed == analyze_document_from_file(file_path, outcome) IN
                /\ again' = again \cup ({file_path} \cap succeeded)
                /\ IF DOMAIN analysed # {}
                   THEN LET with_keys == analysed @@ [key_fields |-> extract_key_fields(analysed)]
                            output_file == OutputFile(file_path)
                        IN  /\ output_files' = (output_file :> with_keys) @@ output_files
                            /\ dumped' = Append(dumped, [path |-> file_path,
                                                         output_file |-> output_file])
                            /\ succeeded' = succeeded \cup {file_path}
                            /\ moved_files' =
                                   IF move_ok
                                   THEN (PathName(file_path) :> file_path) @@ moved_files
                                   ELSE moved_files
                            /\ input_files' =
                                   IF move_ok THEN input_files \ {file_path} ELSE input_files
                            /\ results' = Append(results,
                                                 with_keys @@ [moved_to_processed |-> move_ok])
                   ELSE /\ results' = Append(results, FailedResult(file_path))
                        /\ UNCHANGED << output_files, moved_files, dumped, input_files,
                                           succeeded >>
    /\ todo' = Tail(todo)
    /\ UNCHANGED << dpc, druns, listing, analysis_result, key_fields, npc, rvars, mvars,
                    cvars, svars >>

\* lines 259-260
ReturnResults ==
    /\ dpc = "loop"
    /\ todo = <<>>
    /\ dpc' = "returned"
    /\ UNCHANGED << todo, output_files, moved_files, results, dumped, input_files,
                    succeeded, again, druns, listing,
                    analysis_result, key_fields, npc, rvars, mvars, cvars, svars >>

NextDirectory == ProcessFile \/ ReturnResults

SpecDirectory == InitDirectory /\ [][NextDirectory]_vars

\* the calls of process_directory on one input directory
MaxDirRuns == 2

\* a later call: rglob lists what is below input_dir now, in any order
StartRun ==
    /\ dpc = "returned"
    /\ druns < MaxDirRuns
    /\ todo' \in {l \in DistinctListings : Range(l) = input_files}
    /\ listing' = todo'
    /\ results' = <<>>
    /\ druns' = druns + 1
    /\ dpc' = "loop"
    /\ UNCHANGED << output_files, moved_files, dumped, input_files, succeeded, again,
                    analysis_result, key_fields, npc, rvars, mvars, cvars, svars >>

NextDirectoryRuns == ProcessFile \/ ReturnResults \/ StartRun

SpecDirectoryRuns == InitDirectory /\ [][NextDirectoryRuns]_vars

-----------------------------------------------------------------------------
(* The preprocessor: process_file and compress_image *)

\* the quality argument: 1-100 by the docstring, 85 when process_file calls
Qualities == 1..100

DefaultQuality == 85

\* Variant: the quality is lowered by one step of 1
NextQuality_ByOne(q) == q - 1

\* line 63
NextQuality(q) == q - 10

\* line 64
Retries(q) == q > 20

\* lines 66-69: at the floor the warning is logged and control falls through to
\* return True
FloorReturn == "True"

\* what one pass of the try block meets: an exception (Image.open, img.save,
\* get_file_size), or an output file under or over max_size_bytes
EncodeOutcomes == {"raised", "under", "over"}

InitCompression ==
    /\ SyncOff
    /\ analysis_result = <<>>
    /\ key_fields = <<>>
    /\ npc = "off"
    /\ RecognitionOff
    /\ MatrixOff
    /\ DirectoryOff
    /\ entry \in {"process_file", "compress_image"}
    /\ IF entry = "process_file"
       THEN quality = DefaultQuality /\ fpc = "start"
       ELSE quality \in Qualities /\ fpc = "encode"
    /\ attempts = <<>>
    /\ new_size = "none"
    /\ compress_ret = "none"
    /\ original = "present"

\* process_file, lines 88-96 and 110-114: a file that is small enough is moved
CheckSize ==
    /\ fpc = "start"
    /\ \E needs_compression \in BOOLEAN :
          IF needs_compression
          THEN fpc' = "encode" /\ UNCHANGED original
          ELSE fpc' = "done" /\ original' = "moved"
    /\ UNCHANGED << entry, quality, attempts, new_size, compress_ret,
                    analysis_result, key_fields, npc, rvars, mvars, dvars, svars >>

\* what follows the return of the outermost compress_image frame
AfterCompress == IF entry = "process_file" THEN "compressed" ELSE "done"

\* one frame of compress_image, lines 39-77; a frame that recurses returns what
\* the inner frame returns
Encode ==
    /\ fpc = "encode"
    /\ \E outcome \in EncodeOutcomes :
          CASE outcome = "raised" ->
                 /\ \E saved \in BOOLEAN :
                       attempts' = IF saved THEN Append(attempts, quality) ELSE attempts
                 /\ compress_ret' = "False"
                 /\ fpc' = AfterCompress
                 /\ UNCHANGED << quality, new_size >>
            [] outcome = "under" ->
                 /\ attempts' = Append(attempts, quality)
                 /\ new_size' = "under"
                 /\ compress_ret' = "True"
                 /\ fpc' = AfterCompress
                 /\ UNCHANGED quality
            [] outcome = "over" ->
                 /\ attempts' = Append(attempts, quality)
                 /\ new_size' = "over"
                 /\ quality' = NextQuality(quality)
                 /\ IF Retries(quality')
                    THEN UNCHANGED << compress_ret, fpc >>
                    ELSE compress_ret' = FloorReturn /\ fpc' = AfterCompress
    /\ UNCHANGED << entry, original,
                    analysis_result, key_fields, npc, rvars, mvars, dvars, svars >>

\* process_file, lines 101-109
AfterCompression ==
    /\ fpc = "compressed"
    /\ original' = IF compress_ret = "True" THEN "removed" ELSE "moved"
    /\ fpc' = "done"
    /\ UNCHANGED << entry, quality, attempts, new_size, compress_ret,
                    analysis_result, key_fields, npc, rvars, mvars, dvars, svars >>

NextCompression == CheckSize \/ Encode \/ AfterCompression

SpecCompression == InitCompression /\ [][NextCompression]_vars

\* a call that has begun runs on: the frames of compress_image are ordinary
\* sequential code
SpecCompressionFair == SpecCompression /\ WF_vars(NextCompression)

-----------------------------------------------------------------------------
(* Properties of the sync orchestrator and the ledger *)

\* the lines the current run has appended to processed_files.txt
RunAppended == SubSeq(processed_files_db, Len(db0) + 1, Len(processed_files_db))

NoDuplicateLines(lines) == \A i, j \in DOMAIN lines : lines[i] = lines[j] => i = j

\* the last run wrote to the destination and returned True
RunPublished == pc = "idle" /\ result = "True" /\ write_call = "ok"

\* C1: a run whose write succeeded wrote the header and exactly one row per
\* artifact of the directory that was not in the ledger when the run began, no row
\* for an artifact that was, and leaves the ledger equal to the old ledger plus the
\* directory's identifiers (on disk too, when every append persisted).
C1_PublishesExactlyTheNew ==
    RunPublished =>
        LET S == Range(json_files)
            L == ledger0
        IN  /\ Len(rows) = 1 + Cardinality(S \ L)
            /\ rows[1] = headers
            /\ FilesIn(rows) = S \ L
            /\ run_written = S \ L
            /\ SubSeq(sheet, 1, Len(rows)) = rows
            /\ processed_files = L \cup S
            /\ append_failed = {} =>
                  /\ IsPrefix(db0, processed_files_db)
                  /\ Range(RunAppended) = S \ L
                  /\ Len(RunAppended) = Cardinality(S \ L)

\* the case L = {A}, S = {A, B}: one identifier already registered, one new
C1_Witness ==
    /\ RunPublished
    /\ Range(json_files) \cap ledger0 # {}
    /\ Range(json_files) \ ledger0 # {}
    /\ append_failed = {}

\* C2 as claimed: over all runs, restarts and interruptions, no artifact's row is
\* carried by more than one successful destination write.
C2_AtMostOnceEver == \A f \in FileNames : pub_count[f] <= 1

\* C2 as amended: between two loads of the ledger (one process), no artifact's row
\* is carried by more than one successful destination write.
C2_AtMostOncePerProcess == \A f \in FileNames : proc_pub[f] <= 1

\* a second run of the same process skips a file it published, although the
\* append of its identifier had failed
C2_Witness ==
    /\ pc = "idle"
    /\ result = "True"
    /\ \E f \in FileNames :
          /\ proc_pub[f] = 1
          /\ f \in unpersisted
          /\ f \in Range(duplicate_files)

\* C3: whatever the current run has appended to the persisted ledger is the
\* identifier of an artifact whose row its completed successful write carried;
\* nothing is appended without such a write.
C3_RegisteredWereWritten ==
    /\ IsPrefix(db0, processed_files_db)
    /\ Range(RunAppended) \subseteq run_written
    /\ Len(RunAppended) <= Cardinality(run_written)
    /\ write_call # "ok" => processed_files_db = db0 /\ run_written = {}

\* a process killed inside the registration loop: fewer registered than written
C3_Witness ==
    /\ pc = "down"
    /\ write_call = "ok"
    /\ append_failed = {}
    /\ Len(RunAppended) >= 1
    /\ Len(RunAppended) < Cardinality(run_written)

\* C4: a run over a non-empty directory whose identifiers are all in the ledger
\* writes nothing, changes neither the in-memory set nor the store, counts 0 new
\* and N duplicates, and returns True.
C4_AllDuplicatesIsNoOp ==
    (pc # "down" /\ json_files # <<>> /\ Range(json_files) \subseteq ledger0) =>
        /\ pc = "idle"
        /\ result = "True"
        /\ write_call = "none"
        /\ run_written = {}
        /\ processed_files = ledger0
        /\ processed_files_db = db0
        /\ new_files = <<>>
        /\ duplicate_files = json_files

C4_Witness ==
    /\ pc = "idle"
    /\ Len(json_files) >= 2
    /\ Range(json_files) \subseteq ledger0
    /\ result = "True"

\* C5: in a process that read a store without duplicate lines to its end, the
\* store never holds an identifier on two lines.
C5_StoreHasNoDuplicateLines ==
    (load_ok /\ NoDuplicateLines(db_start)) => NoDuplicateLines(processed_files_db)

\* C6: after a run whose destination write failed, the run has returned False,
\* the in-memory set and the store are those from before the run, and the run's
\* new files are new again for the next run of the process.
C6_FailedWriteRegistersNothing ==
    (pc = "idle" /\ json_files # <<>> /\ write_call = "failed") =>
        /\ result = "False"
        /\ processed_files = ledger0
        /\ processed_files_db = db0
        /\ run_written = {}
        /\ new_files # <<>>
        /\ \A f \in Range(new_files) :
              f \in Range(NewFiles(Glob(dir), processed_files))

C6_Witness ==
    /\ pc = "idle"
    /\ result = "False"
    /\ write_call = "failed"
    /\ ledger0 # {}
    /\ Len(new_files) >= 2

\* C7: a run whose new set holds an artifact that cannot be read or parsed never
\* reaches the destination write and registers nothing; it returns False.
C7_MalformedAborts ==
    (\E f \in Range(new_files) : ~Readable(dir0, f)) =>
        /\ pc \in {"scanned", "idle"}
        /\ pc = "idle" => result = "False"
        /\ write_call = "none"
        /\ run_written = {}
        /\ rows = <<>>
        /\ processed_files = ledger0
        /\ processed_files_db = db0

\* the malformed artifact comes after a well-formed new one
C7_Witness ==
    /\ pc = "idle"
    /\ result = "False"
    /\ Len(new_files) >= 2
    /\ Readable(dir0, new_files[1])
    /\ ~Readable(dir0, new_files[2])

\* C8: a failed append does not stop the loop, leaves the identifier in the
\* in-memory set for the rest of the process and the store unchanged, and the
\* ledger a later process start reads to its end does not contain the identifier.
C8_FailedAppendIsLostOnRestart ==
    [][ /\ (append_failed' \ append_failed # {}) =>
              /\ processed_files_db' = processed_files_db
              /\ pc' = "written"
              /\ (append_failed' \ append_failed) \subseteq processed_files'
        /\ (pc # "down" /\ pc' # "down") => unpersisted \subseteq processed_files'
        /\ (pc = "down" /\ pc' = "idle" /\ load_ok') =>
              processed_files' \cap unpersisted = {}
      ]_vars

\* C9: every step leaves the store's former lines in place, as a prefix of the
\* new store.
C9_StoreIsAppendOnly ==
    [][IsPrefix(processed_files_db, processed_files_db')]_vars

\* a store of several lines that a second process has loaded and appended to
C9_Witness ==
    /\ starts = 2
    /\ pc = "idle"
    /\ Len(db_start) >= 1
    /\ Len(processed_files_db) > Len(db_start)

\* C13: a sync run over a directory without any file whose name matches
\* *_analysis.json returns (it does not raise), returns False, issues no
\* destination write and leaves the in-memory set and the store as they were.
C13_NoArtifactsFails ==
    [][ (pc = "idle" /\ runs' = runs + 1
            /\ \A i \in DOMAIN dir : ~MatchesGlob(dir[i].name)) =>
              /\ pc' = "idle"
              /\ result' = "False"
              /\ json_files' = <<>>
              /\ write_call' = "none"
              /\ sheet' = sheet
              /\ processed_files' = processed_files
              /\ processed_files_db' = processed_files_db
      ]_vars

\* the run was over a directory that holds only the stray file
C13_Witness ==
    /\ pc = "idle"
    /\ runs >= 1
    /\ result = "False"
    /\ dir # <<>>
    /\ \A i \in DOMAIN dir : ~MatchesGlob(dir[i].name)
    /\ write_call = "none"

\* the last run wrote to the destination and every one of its registrations
\* reached the store
LastRunFullyRegistered ==
    /\ write_call = "ok"
    /\ append_failed = {}
    /\ Len(processed_files_db) = Len(db0) + Cardinality(run_written)

\* C14: a start that reads the store to its end yields the set of its non-blank
\* stripped lines, and a missing store is created; when the last run before the
\* start was fully registered and the directory is as that run saw it, the first
\* run of the new process classifies every artifact as duplicate, returns True,
\* and writes neither to the destination nor to the store.
C14_RerunAfterRestartIsNoOp ==
    [][ /\ (pc = "down" /\ pc' = "idle" /\ load_ok') =>
              /\ processed_files' = LoadProcessedFiles(processed_files_db)
              /\ db_exists'
              /\ processed_files_db' = processed_files_db
        /\ (pc = "idle" /\ result = "none" /\ load_ok /\ runs' = runs + 1
                /\ LastRunFullyRegistered /\ dir = dir0) =>
              /\ new_files' = <<>>
              /\ duplicate_files' = Glob(dir)
              /\ pc' = "idle"
              /\ result' = "True"
              /\ sheet' = sheet
              /\ processed_files_db' = processed_files_db
      ]_vars

\* C16: the duplicates of a run are the artifacts whose identifier the ledger
\* held when the run began; none of them gets a row, none is written, none is
\* appended to the store again; and a run aborts before the write only over a new
\* artifact that cannot be read, never over a duplicate: with no new artifact it
\* returns True.
C16_DuplicatesAreNotRead ==
    (pc # "down" /\ json_files # <<>>) =>
        LET dups == Range(duplicate_files)
        IN  /\ dups = Range(json_files) \cap ledger0
            /\ Range(new_files) \cap dups = {}
            /\ FilesIn(rows) \cap dups = {}
            /\ run_written \cap dups = {}
            /\ Range(RunAppended) \cap dups = {}
            /\ (pc = "idle" /\ result = "False" /\ write_call = "none") =>
                  \E f \in Range(new_files) : ~Readable(dir0, f)
            /\ (pc = "idle" /\ new_files = <<>>) => result = "True"

\* a run published a new artifact beside a registered one that had been damaged
C16_Witness ==
    /\ pc = "idle"
    /\ result = "True"
    /\ write_call = "ok"
    /\ new_files # <<>>
    /\ \E d \in Range(duplicate_files) : ~Readable(dir0, d)

LinesOf(f) == Cardinality({i \in DOMAIN processed_files_db : processed_files_db[i] = f})

\* C15: two processes on one store and one directory, with nothing to exclude one
\* another, each publish and register an identifier at most once, but not at most
\* once between them: the store holds an identifier on two lines only when both
\* processes wrote its row to the destination, and C15_Witness is such a state.
C15_TwoInstancesPublishTwice ==
    \A f \in FileNames :
        /\ proc_pub[f] <= 1
        /\ proc_pub2[f] <= 1
        /\ pub_count[f] = proc_pub[f] + proc_pub2[f]
        /\ LinesOf(f) <= pub_count[f]
        /\ LinesOf(f) = 2 => (proc_pub[f] = 1 /\ proc_pub2[f] = 1)

\* both processes loaded the empty store, both wrote the row of b and both
\* appended b: the store holds b on two lines
C15_Witness ==
    /\ pc = "idle" /\ result = "True"
    /\ pc2 = "idle" /\ result2 = "True"
    /\ LET b == <<"b">> \o Suffix
       IN  /\ proc_pub[b] = 1
           /\ proc_pub2[b] = 1
           /\ pub_count[b] = 2
           /\ LinesOf(b) = 2
           /\ b \in processed_files \cap processed_files2

-----------------------------------------------------------------------------
(* Properties of the field normaliser *)

\* C10: whatever the analysis result holds (no extracted_fields entry, an empty
\* mapping, any mapping), the returned dict has every one of the nine canonical
\* keys, and each is the empty string or a value of the extracted fields.
C10_CanonicalKeysAlwaysPresent ==
    npc = "done" =>
        LET fields == Get(analysis_result, "extracted_fields", <<>>)
        IN  /\ Cardinality(CanonicalKeys) = 9
            /\ CanonicalKeys \subseteq DOMAIN key_fields
            /\ \A k \in CanonicalKeys :
                  key_fields[k] \in {EmptyText} \cup {fields[l] : l \in DOMAIN fields}
            /\ (DOMAIN fields = {}) => \A k \in CanonicalKeys : key_fields[k] = EmptyText

\* the analysis result has no extracted_fields entry at all
C10_Witness ==
    /\ npc = "done"
    /\ "extracted_fields" \notin DOMAIN analysis_result
    /\ \A k \in CanonicalKeys : key_fields[k] = EmptyText

\* C11: for each canonical key k, the returned dict has k_confidence exactly when
\* some label of confidence_scores, lower-cased, contains a keyword of k; its
\* value is then the confidence of the first such label in the mapping's order;
\* with no such label the key is absent, and no other key is added.
C11_ConfidenceOfFirstMatch ==
    npc = "done" =>
        LET cs == Get(analysis_result, "confidence_scores", <<>>)
            lowered == [i \in DOMAIN cs |-> Lower(cs[i].label)]
        IN  /\ \A k \in CanonicalKeys :
                  LET keywords == get_field_keywords(k)
                      matching == {i \in DOMAIN cs :
                                     \E n \in DOMAIN keywords :
                                         Contains(lowered[i], keywords[n])}
                  IN  /\ (ConfidenceKey(k) \in DOMAIN key_fields) <=> (matching # {})
                      /\ matching # {} =>
                            \E i \in matching :
                                /\ \A j \in matching : i <= j
                                /\ key_fields[ConfidenceKey(k)] = cs[i].confidence
            /\ DOMAIN key_fields \subseteq
                  CanonicalKeys \cup {ConfidenceKey(k) : k \in CanonicalKeys}

\* {"Typ kotle": 0.91, "typ vyrobku": 0.5}: typ_kotle_confidence is 0.91, and a
\* key no label matches has no confidence entry
C11_Witness ==
    /\ npc = "done"
    /\ "confidence_scores" \in DOMAIN analysis_result
    /\ analysis_result["confidence_scores"] =
          << [label |-> L_TypKotle, confidence |-> 91],
             [label |-> L_TypVyrobku, confidence |-> 50] >>
    /\ key_fields["typ_kotle_confidence"] = 91
    /\ "regulators_confidence" \notin DOMAIN key_fields

\* C26 as stated: every invocation of the sync operation appends exactly one
\* block to the audit log.
C26_EveryInvocationLogs ==
    [][ runs' = runs + 1 => Len(duplicates_log') = Len(duplicates_log) + 1 ]_vars

\* C26, amended: the audit log only grows, by at most one block per step; a block
\* is appended only by the scan of an invocation that found at least one
\* artifact, before any artifact is read or the destination written, and it
\* carries the total and the names of the new and of the duplicate artifacts of
\* that invocation; an invocation that finds no artifact appends nothing.
C26_AuditBlockPerScan ==
    [][ /\ IsPrefix(duplicates_log, duplicates_log')
        /\ Len(duplicates_log') <= Len(duplicates_log) + 1
        /\ duplicates_log' # duplicates_log =>
              /\ pc = "idle"
              /\ runs' = runs + 1
              /\ json_files' # <<>>
              /\ write_call' = "none"
              /\ rows' = <<>>
              /\ LET block == duplicates_log'[Len(duplicates_log')]
                 IN  /\ block.total = Len(json_files')
                     /\ block.new = new_files'
                     /\ block.duplicates = duplicate_files'
                     /\ block.total = Len(block.new) + Len(block.duplicates)
        /\ (runs' = runs + 1 /\ json_files' = <<>>) => duplicates_log' = duplicates_log
      ]_vars

\* two invocations have each left a block; the second found only duplicates
C26_Witness ==
    /\ pc = "idle"
    /\ runs = 2
    /\ Len(duplicates_log) = 2
    /\ result = "True"
    /\ duplicates_log[2].new = <<>>
    /\ duplicates_log[2].duplicates # <<>>
    /\ duplicates_log[2].duplicates = duplicate_files

\* the identifier recorded inside an artifact, and the identifiers a matrix publishes
SourceIdOf(f) == Artifact(f).source_file

PublishedIds(matrix) == {matrix[i][1] : i \in 2..Len(matrix)}

\* C19: an artifact is classified duplicate exactly when the source_file recorded
\* inside it is in the ledger, and what a run that published registers is the
\* set of identifiers in the first column of its matrix.
C19_KeyIsSourceIdentifier ==
    /\ (pc # "down" /\ json_files # <<>>) =>
          \A f \in Range(json_files) :
              Readable(dir0, f) =>
                  (f \in Range(duplicate_files) <=> SourceIdOf(f) \in ledger0)
    /\ RunPublished => processed_files \ ledger0 = PublishedIds(rows)

\* C27: for an analysis result as _process_result builds it (both mappings over
\* the same raw labels), when a canonical key has a non-empty value and a
\* confidence, the confidence is the score of the raw label whose value the key
\* holds.
C27_ConfidenceOfSupplyingLabel ==
    npc = "done" =>
        LET cs == Get(analysis_result, "confidence_scores", <<>>)
            fields == Get(analysis_result, "extracted_fields", <<>>)
        IN  (DOMAIN fields = {cs[i].label : i \in DOMAIN cs}) =>
            \A k \in CanonicalKeys :
                (ConfidenceKey(k) \in DOMAIN key_fields /\ key_fields[k] # EmptyText) =>
                    \E i \in DOMAIN cs :
                        /\ cs[i].label \in DOMAIN fields
                        /\ fields[cs[i].label] = key_fields[k]
                        /\ cs[i].confidence = key_fields[ConfidenceKey(k)]

-----------------------------------------------------------------------------
(* Properties of the matrix builder *)

\* the header of the sheet, written out
HeaderCells ==
    << Col_NazevSouboru, L_TypKotle, L_VyrobniCislo, L_ProdejceKotle, L_AdresaProdejce,
       L_KupujiciJmeno, L_AdresaZakaznika, L_DatumProvozu, L_CisloOpravneni,
       L_Regulator, L_AdresaDoplneniSheet >>

\* C18: the matrix has the header of eleven cells (the identifier column and the
\* ten raw labels, in order) and one row of eleven cells per artifact; the first
\* cell is the artifact's source_file, or empty; cell j is the value the
\* artifact's extracted_fields hold under exactly the header's label j, or empty;
\* a value stored under another spelling of a label, or under key_fields, never
\* reaches the matrix.
C18_MatrixIsLabelDriven ==
    mpc = "done" =>
        /\ Len(rows_out) = 1 + Len(data_in)
        /\ rows_out[1] = HeaderCells
        /\ Len(HeaderCells) = 11
        /\ \A i \in DOMAIN data_in :
              LET data == data_in[i]
                  row == rows_out[i + 1]
                  ef == IF "extracted_fields" \in DOMAIN data
                        THEN data.extracted_fields ELSE <<>>
              IN  /\ Len(row) = 11
                  /\ row[1] = IF "source_file" \in DOMAIN data
                               THEN data.source_file ELSE EmptyText
                  /\ \A j \in 2..11 :
                        row[j] = IF HeaderCells[j] \in DOMAIN ef
                                 THEN ef[HeaderCells[j]] ELSE EmptyText
                  /\ \A j \in 1..11 : row[j] \notin {<<"K">>, <<"R">>}
                  /\ \A l \in DOMAIN ef \ Range(required_fields) :
                        ef[l] # EmptyText => \A j \in 1..11 : row[j] # ef[l]

\* an artifact without source_file that has key_fields, and whose buyer name is
\* stored under the normaliser's spelling of the label: the row is all empty
C18_Witness ==
    /\ mpc = "done"
    /\ "source_file" \notin DOMAIN data_in[1]
    /\ "key_fields" \in DOMAIN data_in[1]
    /\ "extracted_fields" \in DOMAIN data_in[1]
    /\ L_KupujiciJmeno_Key \in DOMAIN data_in[1].extracted_fields
    /\ data_in[1].extracted_fields[L_KupujiciJmeno_Key] # EmptyText
    /\ Len(rows_out) = 3
    /\ \A j \in 1..11 : rows_out[2][j] = EmptyText

-----------------------------------------------------------------------------
(* Properties of the result converter *)

\* C12: for any recognition result, _process_result returns an artifact with
\* status success and the given source identifier; a raw label is a key of
\* extracted_fields exactly when some document has a field of that label with
\* non-empty content; confidence_scores has the same keys; each key carries the
\* content and the confidence of the last such occurrence; document_count is the
\* number of documents.
C12_ArtifactMirrorsFields ==
    rpc \in {"returned", "raised"} =>
        /\ rpc = "returned"
        /\ processed_result.status = "success"
        /\ processed_result.source_file = SourceName
        /\ LET documents == Get(azure_result, "documents", <<>>)
               occ == AllFields(documents)
               ef == processed_result.extracted_fields
               cs == processed_result.confidence_scores
               filled(l) == {i \in DOMAIN occ :
                               occ[i].name = l /\ occ[i].content # EmptyText}
           IN  /\ DOMAIN ef = {l \in Range(ModelFields) : filled(l) # {}}
               /\ {cs[i].label : i \in DOMAIN cs} = DOMAIN ef
               /\ Len(cs) = Cardinality(DOMAIN ef)
               /\ \A l \in DOMAIN ef :
                     \E i \in filled(l) :
                        /\ \A j \in filled(l) : j <= i
                        /\ ef[l] = occ[i].content
                        /\ \E n \in DOMAIN cs :
                              /\ cs[n].label = l
                              /\ "confidence" \in DOMAIN occ[i]
                              /\ cs[n].confidence = occ[i].confidence
               /\ processed_result.document_count = Len(documents)

-----------------------------------------------------------------------------
(* Properties of process_directory *)

\* C21: a document whose analysis has succeeded has left the input directory
\* and is not submitted to the service again, in this call or a later one.
C21_AnalysedAtMostOnceAfterSuccess ==
    /\ again = {}
    /\ (dpc = "returned" => succeeded \cap input_files = {})

\* the files among paths that have a supported extension, in order
RECURSIVE SupportedFiles(_)
SupportedFiles(paths) ==
    IF paths = <<>> THEN <<>>
    ELSE LET p == Head(paths)
             rest == SupportedFiles(Tail(paths))
         IN  IF p.is_file /\ Lower(p.suffix) \in supported_formats
             THEN <<p>> \o rest ELSE rest

\* C22: at every point of the loop the results are, in order, one per file with
\* a supported extension among the paths the loop has passed; each is a success
\* or a failed result, and a failed one is exactly the failure record of its
\* file: a diagnostic message, no extracted fields, moved_to_processed false.
\* The call returns only when the whole listing has been passed.
C22_OneResultPerSupportedFile ==
    dpc \in {"loop", "returned"} =>
        LET passed == SubSeq(listing, 1, Len(listing) - Len(todo))
            files == SupportedFiles(passed)
        IN  /\ dpc = "returned" => todo = <<>>
            /\ Len(results) = Len(files)
            /\ \A i \in DOMAIN results :
                  /\ results[i].source_file = PathName(files[i])
                  /\ results[i].status \in {"success", "failed"}
                  /\ results[i].status = "failed" =>
                        /\ DOMAIN results[i] =
                              {"source_file", "status", "error", "moved_to_processed"}
                        /\ results[i].error # ""
                        /\ ~results[i].moved_to_processed
                  /\ results[i].status = "success" =>
                        "extracted_fields" \in DOMAIN results[i]

\* a call returned after a file whose analysis failed, an unsupported file and a
\* file with an upper-case extension that was analysed
C22_Witness ==
    /\ dpc = "returned"
    /\ Len(listing) = 3
    /\ Len(results) = 2
    /\ results[1].status = "failed"
    /\ results[2].status = "success"
    /\ results[2].source_file = <<"a">> \o Ext_JPG

\* C23: for every success result of a call, the artifact file of its document
\* carries moved_to_processed with the value the result carries.
C23_ArtifactCarriesMoveFlag ==
    dpc = "returned" =>
        \A i \in DOMAIN results :
            results[i].status = "success" =>
                LET output_file == OutputFile(SupportedFiles(listing)[i])
                IN  /\ output_file \in DOMAIN output_files
                    /\ "moved_to_processed" \in DOMAIN output_files[output_file]
                    /\ output_files[output_file].moved_to_processed =
                           results[i].moved_to_processed

SuccessResults == {i \in DOMAIN results : results[i].status = "success"}

\* C20: after the run the number of artifact files written equals the number of
\* success results, and no two documents analysed successfully were dumped to
\* the same artifact file.
C20_OneArtifactPerDocument ==
    dpc = "returned" =>
        /\ Cardinality(DOMAIN output_files) = Cardinality(SuccessResults)
        /\ \A i, j \in DOMAIN dumped :
              dumped[i].output_file = dumped[j].output_file => i = j

-----------------------------------------------------------------------------
(* Properties of the preprocessor *)

\* C24: compress_image returns True only when the output file it wrote is not
\* over the threshold, and process_file removes the original only then.
C24_SuccessMeansUnderThreshold ==
    /\ compress_ret = "True" => new_size = "under"
    /\ original = "removed" => new_size = "under"

\* the encode attempts so far step down by 10 from the starting quality, every
\* attempt after the first is at a quality above 20, and there are at most 8 of
\* them (at most 7 from the default quality 85, the last at 25)
AttemptsBounded ==
    /\ \A i \in 1..(Len(attempts) - 1) : attempts[i + 1] = attempts[i] - 10
    /\ \A i \in 2..Len(attempts) : attempts[i] > 20
    /\ Len(attempts) <= 8
    /\ attempts # <<>> =>
          /\ attempts[1] \in Qualities
          /\ attempts[1] = DefaultQuality =>
                /\ Len(attempts) <= 7
                /\ \A i \in DOMAIN attempts : attempts[i] >= 25
    /\ entry = "process_file" /\ attempts # <<>> => attempts[1] = DefaultQuality
    /\ (fpc = "encode" /\ attempts # <<>>) =>
          quality = attempts[Len(attempts)] - 10 /\ quality > 20

\* C25: the backoff of compress_image terminates: the attempts are bounded as
\* above whatever the sizes of the outputs, and a call that is encoding
\* eventually returns.
C25_BackoffTerminates ==
    /\ []AttemptsBounded
    /\ (fpc = "encode") ~> (fpc # "encode")

\* process_file compressed at 85, 75, ..., 25, every output over the threshold,
\* and the call returned after the seventh attempt
C25_Witness ==
    /\ entry = "process_file"
    /\ fpc = "done"
    /\ attempts = << 85, 75, 65, 55, 45, 35, 25 >>
    /\ new_size = "over"

====
